---- MODULE Spec2Model ----
(***************************************************************************)
(* dotty: a declarative dotfile and package manager.                       *)
(*                                                                         *)
(* The module models src/src/config.rs (the configuration tree, combine,   *)
(* diff, update, Change::action, Action::execute) and the apply / update   *)
(* runs of src/src/main.rs.                                                *)
(*                                                                         *)
(* Encoding.                                                               *)
(*   HashMap<K, V>   a function whose DOMAIN is the set of keys present    *)
(*   HashSet<T>      a set                                                 *)
(*   Option<T>       <<>> for None, <<x>> for Some(x)                      *)
(*   Vec<T>          a sequence                                            *)
(*   Box<str> that is a command: a sequence of tokens; the token "#:?" is  *)
(*                   the placeholder, every other token stands for a piece *)
(*                   of text that holds no placeholder                     *)
(*   Result<T>       a record with an ok field                             *)
(* The iteration order of a HashMap or HashSet is unspecified: every       *)
(* operator that iterates one yields the set of results over all orders.   *)
(***************************************************************************)
EXTENDS Integers, Sequences, FiniteSets, TLC

VARIABLES
    document,   \* the managers tables of the configuration file, as written
    config,     \* the tree read from the configuration file (new)
    state,      \* the tree read from the state file, Config::default() if unreadable (old)
    fs,         \* the disk: kind and modification time of every path
    snapshot,   \* the content of the state file: None or Some(tree)
    pc,         \* position of the running command
    emitted,    \* the changes in the order diff / update pushed them
    changes,    \* the value returned by diff / update, or the change list being walked
    actions,    \* the actions of the current change that are still to execute
    log,        \* what the run did so far: compiled changes, executed actions
    frags,      \* the trees handed to combine
    merged      \* the results of combine

vars == <<document, config, state, fs, snapshot, pc, emitted, changes, actions, log, frags, merged>>

-----------------------------------------------------------------------------
(* Bounds of the model *)

\* longest template sequence of an input tree
MaxSeqLen == 1
\* latest modification time of a path on the initial disk
MaxTime == 1

(* Program constants *)

\* File::default, Hook::default, Manager::default: priority
DefaultPriority == 50

-----------------------------------------------------------------------------
(* Generic helpers for maps, options and orders *)

None == <<>>
Some(x) == <<x>>
IsSome(o) == o # <<>>
Unwrap(o) == o[1]

EmptyMap == <<>>

\* all HashMaps with keys among K and values in V
Maps(K, V) == UNION {[D -> V] : D \in SUBSET K}

\* HashMap::insert
Put(m, k, v) == [x \in DOMAIN m \cup {k} |-> IF x = k THEN v ELSE m[x]]

\* HashMap::extend: the incoming entry replaces the present one
Extend(m, o) == [x \in DOMAIN m \cup DOMAIN o |-> IF x \in DOMAIN o THEN o[x] ELSE m[x]]

\* HashMap::get(k).unwrap_or(&empty) for a map of sets
GetOrEmpty(m, k) == IF k \in DOMAIN m THEN m[k] ELSE {}

\* the orders in which a HashMap / HashSet with the elements S may be iterated
Orders(S) ==
    {s \in [1..Cardinality(S) -> S] : \A i, j \in 1..Cardinality(S) : i # j => s[i] # s[j]}

RECURSIVE Flatten(_)
Flatten(ss) == IF ss = <<>> THEN <<>> ELSE Head(ss) \o Flatten(Tail(ss))

\* the sequences seg[1] \o ... \o seg[n] with seg[i] drawn from segs[ord[i]]
RECURSIVE ConcatChoices(_, _)
ConcatChoices(ord, segs) ==
    IF ord = <<>> THEN {<<>>}
    ELSE {h \o t : h \in segs[Head(ord)], t \in ConcatChoices(Tail(ord), segs)}

-----------------------------------------------------------------------------
(* Paths and the disk *)

\* A path string: the directory it names, the file stem and the extension.
\* The directory "~" is the tilde prefix, "." is a path relative to the
\* working directory.
Path(dir, name, ext) == [dir |-> dir, name |-> name, ext |-> ext]

Home == "/home/u"
Cwd == "/cwd"

\* shellexpand::tilde: a leading ~ becomes the home directory
TildeExpand(p) == IF p.dir = "~" THEN [p EXCEPT !.dir = Home] ELSE p

\* the absolute path the operating system opens for a path: a relative path
\* is taken from the working directory, and there a ~ is an ordinary name
OnDisk(p) ==
    CASE p.dir = "." -> [p EXCEPT !.dir = Cwd]
      [] p.dir = "~" -> [p EXCEPT !.dir = "/cwd/~"]
      [] OTHER -> p

\* Path::exists, Path::is_dir on the disk d: a map from the absolute paths
\* that exist to [kind, mtime]
Exists(d, p) == OnDisk(p) \in DOMAIN d
IsDir(d, p) == Exists(d, p) /\ d[OnDisk(p)].kind = "dir"

\* fs::metadata(p)?.modified()?
Modified(d, p) == d[OnDisk(p)].mtime

\* path.canonicalize().unwrap_or(path): absolute when the path exists
Canonicalize(d, p) == IF Exists(d, p) THEN OnDisk(p) ELSE p

\* source.extension().is_some_and(|ext| ext == "tera")
IsTemplate(p) == p.ext = "tera"

\* the latest modification time on the disk
Now(d) == IF DOMAIN d = {} THEN 0
          ELSE CHOOSE t \in {d[p].mtime : p \in DOMAIN d} : \A q \in DOMAIN d : d[q].mtime <= t

-----------------------------------------------------------------------------
(* The configuration tree: config.rs, struct Config and its parts *)

Placeholder == "#:?"

\* impl Default for Module
DefaultModule == [import |-> {}, disable |-> FALSE]

\* impl Default for Hooks
DefaultHooks == [once |-> EmptyMap, update |-> EmptyMap]

\* #[derive(Default)] for Config
DefaultConfig ==
    [managers |-> EmptyMap, packages |-> EmptyMap, module |-> DefaultModule,
     hooks |-> DefaultHooks, files |-> EmptyMap, template |-> EmptyMap]

\* impl Default for File
DefaultFile == [source |-> Path(".", "", ""), priority |-> DefaultPriority, post_hook |-> None, sudo |-> FALSE]

\* impl From<Box<str>> for File: the bare-string shorthand
FileFromShorthand(value) == [DefaultFile EXCEPT !.source = value]

\* impl Default for Hook
DefaultHook == [command |-> <<>>, priority |-> DefaultPriority]

\* impl From<Box<str>> for Hook: the bare-string shorthand
HookFromShorthand(value) == [DefaultHook EXCEPT !.command = value]

\* impl Default for Manager
DefaultManager ==
    [add |-> None, remove |-> None, update |-> None, sudo |-> FALSE,
     seperator |-> " ", priority |-> DefaultPriority]

\* #[serde(default)] on Manager: a field absent from the document (None here)
\* takes the value of Manager::default()
ManagerFromDoc(doc) ==
    [add |-> doc.add, remove |-> doc.remove, update |-> doc.update,
     sudo |-> IF IsSome(doc.sudo) THEN Unwrap(doc.sudo) ELSE DefaultManager.sudo,
     seperator |-> IF IsSome(doc.seperator) THEN Unwrap(doc.seperator)
                   ELSE DefaultManager.seperator,
     priority |-> IF IsSome(doc.priority) THEN Unwrap(doc.priority)
                  ELSE DefaultManager.priority]

\* enum TemplateValue
Value(s) == [kind |-> "Value", v |-> s]
Mapping(m) == [kind |-> "Mapping", m |-> m]
Sequence(s) == [kind |-> "Sequence", s |-> s]

\* impl PartialEq for TemplateValue. A sequence equals another when each of
\* its elements is contained in the other (slice::contains compares the
\* element of the other sequence on the left); a HashMap equals another when
\* both have the same keys and the values are equal key by key.
RECURSIVE TemplateValueEq(_, _)
TemplateValueEq(a, b) ==
    CASE a.kind = "Value" /\ b.kind = "Value" -> a.v = b.v
      [] a.kind = "Mapping" /\ b.kind = "Mapping" ->
            /\ DOMAIN a.m = DOMAIN b.m
            /\ \A k \in DOMAIN a.m : TemplateValueEq(a.m[k], b.m[k])
      [] a.kind = "Sequence" /\ b.kind = "Sequence" ->
            \A i \in DOMAIN a.s : \E j \in DOMAIN b.s : TemplateValueEq(b.s[j], a.s[i])
      [] OTHER -> FALSE

\* #[derive(PartialEq)] for TemplateContext: HashMap equality over TemplateValue
TemplateContextEq(a, b) ==
    /\ DOMAIN a = DOMAIN b
    /\ \A k \in DOMAIN a : TemplateValueEq(a[k], b[k])


-----------------------------------------------------------------------------
(* combine: config.rs, TemplateValue::combine and Config::combine *)

\* TemplateValue::combine(&mut self, other) and the loop over the keys of the
\* incoming mapping. Both mutate in place: an outcome is [ok, val] with val the
\* value left in self, also when the call fails.
RECURSIVE TemplateValueCombine(_, _)
RECURSIVE CombineKeys(_, _, _)

\* the loop `for (key, value) in other` over the keys still to visit
CombineKeys(me, other, ord) ==
    IF ord = <<>> THEN {[ok |-> TRUE, val |-> me]}
    ELSE LET key == Head(ord) IN
         IF key \in DOMAIN me
         THEN UNION {IF r.ok THEN CombineKeys(Put(me, key, r.val), other, Tail(ord))
                     ELSE {[ok |-> FALSE, val |-> Put(me, key, r.val)]}
                     : r \in TemplateValueCombine(me[key], other[key])}
         ELSE CombineKeys(Put(me, key, other[key]), other, Tail(ord))

\* the loop started in every iteration order of the incoming HashMap
CombineMaps(me, other) == UNION {CombineKeys(me, other, ord) : ord \in Orders(DOMAIN other)}

\* mutant of TemplateValueCombine: two leaves merge, the incoming one wins
TemplateValueCombineLastWins(me, other) ==
    CASE me.kind = "Value" /\ other.kind = "Value" -> {[ok |-> TRUE, val |-> other]}
      [] me.kind = "Sequence" /\ other.kind = "Sequence" ->
            {[ok |-> TRUE, val |-> Sequence(me.s \o other.s)]}
      [] me.kind = "Mapping" /\ other.kind = "Mapping" ->
            {[ok |-> r.ok, val |-> Mapping(r.val)] : r \in CombineMaps(me.m, other.m)}
      [] OTHER -> {[ok |-> FALSE, val |-> me]}

TemplateValueCombine(me, other) ==
    CASE me.kind = "Value" /\ other.kind = "Value" -> {[ok |-> FALSE, val |-> me]}
      [] me.kind = "Sequence" /\ other.kind = "Sequence" ->
            {[ok |-> TRUE, val |-> Sequence(me.s \o other.s)]}
      [] me.kind = "Mapping" /\ other.kind = "Mapping" ->
            {[ok |-> r.ok, val |-> Mapping(r.val)] : r \in CombineMaps(me.m, other.m)}
      [] OTHER -> {[ok |-> FALSE, val |-> me]}

\* mutant of CombinePackages: the incoming set replaces the present one
CombinePackagesOverwrite(mine, theirs) == Extend(mine, theirs)

\* the loop of Config::combine over other.packages: per manager, set union
CombinePackages(mine, theirs) ==
    [m \in DOMAIN mine \cup DOMAIN theirs |-> GetOrEmpty(mine, m) \cup GetOrEmpty(theirs, m)]

\* mutant of Combine: a failing call restores the tree it was made on
CombineAtomic(self, other) ==
    LET folded == [self EXCEPT
                     !.managers = Extend(self.managers, other.managers),
                     !.hooks = [once |-> Extend(self.hooks.once, other.hooks.once),
                                update |-> Extend(self.hooks.update, other.hooks.update)],
                     !.files = Extend(self.files, other.files),
                     !.packages = CombinePackages(self.packages, other.packages)]
    IN {IF r.ok THEN [ok |-> TRUE, tree |-> [folded EXCEPT !.template = r.val]]
        ELSE [ok |-> FALSE, tree |-> self]
        : r \in CombineMaps(self.template, other.template)}

\* Config::combine(&mut self, other): an outcome is [ok, tree] with tree the
\* value left in self. The maps and the packages are folded in before the
\* template is looked at, so a failing call leaves them folded in.
Combine(self, other) ==
    LET folded == [self EXCEPT
                     !.managers = Extend(self.managers, other.managers),
                     !.hooks = [once |-> Extend(self.hooks.once, other.hooks.once),
                                update |-> Extend(self.hooks.update, other.hooks.update)],
                     !.files = Extend(self.files, other.files),
                     !.packages = CombinePackages(self.packages, other.packages)]
    IN {[ok |-> r.ok, tree |-> [folded EXCEPT !.template = r.val]]
        : r \in CombineMaps(self.template, other.template)}

-----------------------------------------------------------------------------
(* Changes: config.rs, enum Change, Change::priority, the sort of the plan *)

AddPackage(manager, packages) ==
    [type |-> "AddPackage", manager |-> manager, packages |-> packages]
RemovePackage(manager, packages) ==
    [type |-> "RemovePackage", manager |-> manager, packages |-> packages]
CopyFile(file, target) == [type |-> "CopyFile", file |-> file, target |-> target]
RawCommand(command, priority) ==
    [type |-> "RawCommand", command |-> command, priority |-> priority]

\* Change::priority(&self, config)
Priority(change, cfg) ==
    CASE change.type \in {"AddPackage", "RemovePackage"} -> cfg.managers[change.manager].priority
      [] change.type = "RawCommand" -> change.priority
      [] change.type = "CopyFile" -> change.file.priority

\* mutant of InsertByKey: the change goes before the changes of equal priority
InsertBeforeEqual(sorted, change, cfg) ==
    LET before == SelectSeq(sorted, LAMBDA c : Priority(c, cfg) < Priority(change, cfg))
        after == SelectSeq(sorted, LAMBDA c : Priority(c, cfg) >= Priority(change, cfg))
    IN before \o <<change>> \o after

\* one step of the stable sort: the change goes behind every change of the
\* sorted prefix whose priority is not greater
InsertByKey(sorted, change, cfg) ==
    LET before == SelectSeq(sorted, LAMBDA c : Priority(c, cfg) <= Priority(change, cfg))
        after == SelectSeq(sorted, LAMBDA c : Priority(c, cfg) > Priority(change, cfg))
    IN before \o <<change>> \o after

\* changes.sort_by_key(|x| x.priority(self)): a stable sort
RECURSIVE SortByKey(_, _)
SortByKey(list, cfg) ==
    IF list = <<>> THEN <<>>
    ELSE InsertByKey(SortByKey(SubSeq(list, 1, Len(list) - 1), cfg), list[Len(list)], cfg)

-----------------------------------------------------------------------------
(* Config::update *)

\* packages.join(seperator)
RECURSIVE Join(_, _)
Join(list, sep) ==
    IF Len(list) <= 1 THEN list
    ELSE <<Head(list), sep>> \o Join(Tail(list), sep)

\* command.replace("#:?", args): every placeholder token becomes the argument text
Replace(command, args) ==
    Flatten([i \in DOMAIN command |-> IF command[i] = Placeholder THEN args ELSE <<command[i]>>])

\* format!("sudo {}", command)
SudoPrefix(command) == <<"sudo ">> \o command

\* mutant of UpdateOfManager: the packages are always joined
UpdateOfManagerAlwaysJoined(self, name) ==
    LET manager == self.managers[name]
        command == IF manager.sudo THEN SudoPrefix(Unwrap(manager.update))
                   ELSE Unwrap(manager.update)
        packages == GetOrEmpty(self.packages, name)
    IN IF manager.update = None THEN {<<>>}
       ELSE {<<RawCommand(Replace(command, Join(ord, manager.seperator)), manager.priority)>>
             : ord \in Orders(packages)}

\* the body of the loop over self.managers in update: the changes pushed for
\* one manager, one sequence per iteration order of its package set
UpdateOfManager(self, name) ==
    LET manager == self.managers[name]
        command == IF manager.sudo THEN SudoPrefix(Unwrap(manager.update))
                   ELSE Unwrap(manager.update)
        packages == GetOrEmpty(self.packages, name)
    IN IF manager.update = None THEN {<<>>}
       ELSE IF manager.seperator # ""
       THEN {<<RawCommand(Replace(command, Join(ord, manager.seperator)), manager.priority)>>
             : ord \in Orders(packages)}
       ELSE {[i \in DOMAIN ord |-> RawCommand(Replace(command, <<ord[i]>>), manager.priority)]
             : ord \in Orders(packages)}

\* the body of the loop over self.hooks.update
UpdateOfHook(self, name) ==
    {<<RawCommand(self.hooks.update[name].command, self.hooks.update[name].priority)>>}

\* the push orders update can produce, before the sort
UpdateEmitted(self) ==
    LET bym == [m \in DOMAIN self.managers |-> UpdateOfManager(self, m)]
        byh == [h \in DOMAIN self.hooks.update |-> UpdateOfHook(self, h)]
    IN {ms \o hs : ms \in UNION {ConcatChoices(o, bym) : o \in Orders(DOMAIN self.managers)},
                   hs \in UNION {ConcatChoices(o, byh) : o \in Orders(DOMAIN self.hooks.update)}}

\* Config::update(&self): the possible results [ok, emitted, changes]
Update(self) ==
    {[ok |-> TRUE, emitted |-> e, changes |-> SortByKey(e, self)] : e \in UpdateEmitted(self)}

-----------------------------------------------------------------------------
(* Config::diff *)

\* the body of the loop over the managers of self: RemovePackage, then AddPackage
DiffOfManager(self, old, name) ==
    LET new_packages == GetOrEmpty(self.packages, name)
        current_packages == GetOrEmpty(old.packages, name)
        added == new_packages \ current_packages
        removed == current_packages \ new_packages
    IN {(IF removed # {} THEN <<RemovePackage(name, r)>> ELSE <<>>)
        \o (IF added # {} THEN <<AddPackage(name, a)>> ELSE <<>>)
        : r \in Orders(removed), a \in Orders(added)}

\* mutant of RunHook: a hook runs again whenever the hook entry changed
RunHookWhenEntryChanged(self, old, name) ==
    IF name \in DOMAIN old.hooks.once
    THEN self.hooks.once[name] # old.hooks.once[name]
    ELSE TRUE

\* run_hook: the hook is new, or its command changed
RunHook(self, old, name) ==
    IF name \in DOMAIN old.hooks.once
    THEN self.hooks.once[name].command # old.hooks.once[name].command
    ELSE TRUE

\* the body of the loop over self.hooks.once
DiffOfHook(self, old, name) ==
    IF RunHook(self, old, name)
    THEN {<<RawCommand(self.hooks.once[name].command, self.hooks.once[name].priority)>>}
    ELSE {<<>>}

\* redo_all_templates = self.template != old.template
RedoAllTemplates(self, old) == ~TemplateContextEq(self.template, old.template)

\* the source and target of a file entry as diff resolves them
ResolvedSource(d, file) == Canonicalize(d, TildeExpand(file.source))
ResolvedTarget(d, target) == Canonicalize(d, TildeExpand(target))

\* mutant of CopyAnyway: a target the snapshot does not know is not copied for that
CopyAnywayKnownOrNot(self, old, d, target) ==
    LET source == ResolvedSource(d, self.files[target])
    IN \/ ~Exists(d, ResolvedTarget(d, target))
       \/ IsDir(d, source)
       \/ (IsTemplate(source) /\ RedoAllTemplates(self, old))

\* the first condition of the loop over self.files: copy without looking at
\* the modification times
CopyAnyway(self, old, d, target) ==
    LET source == ResolvedSource(d, self.files[target])
    IN \/ target \notin DOMAIN old.files
       \/ ~Exists(d, ResolvedTarget(d, target))
       \/ IsDir(d, source)
       \/ (IsTemplate(source) /\ RedoAllTemplates(self, old))

\* fs::metadata(&source)? fails: the times are looked at and the source is missing
MetadataFails(self, old, d, target) ==
    /\ ~CopyAnyway(self, old, d, target)
    /\ ~Exists(d, ResolvedSource(d, self.files[target]))

\* mutant of SourceNewer: the copy is made unless the target is newer
SourceNotOlder(d, source, target) == Modified(d, source) >= Modified(d, target)

\* source_changed > target_changed
SourceNewer(d, source, target) == Modified(d, source) > Modified(d, target)

\* the body of the loop over self.files, for a file whose metadata can be read
DiffOfFile(self, old, d, target) ==
    LET file == self.files[target]
        copy == <<CopyFile(file, ResolvedTarget(d, target))>>
    IN IF CopyAnyway(self, old, d, target) THEN {copy}
       ELSE IF SourceNewer(d, ResolvedSource(d, file), ResolvedTarget(d, target)) THEN {copy}
       ELSE {<<>>}

\* the push orders diff can produce, before the sort
DiffEmitted(self, old, d) ==
    LET bym == [m \in DOMAIN self.managers |-> DiffOfManager(self, old, m)]
        byh == [h \in DOMAIN self.hooks.once |-> DiffOfHook(self, old, h)]
        byf == [t \in DOMAIN self.files |-> DiffOfFile(self, old, d, t)]
    IN {ms \o hs \o fl
        : ms \in UNION {ConcatChoices(o, bym) : o \in Orders(DOMAIN self.managers)},
          hs \in UNION {ConcatChoices(o, byh) : o \in Orders(DOMAIN self.hooks.once)},
          fl \in UNION {ConcatChoices(o, byf) : o \in Orders(DOMAIN self.files)}}

\* the error value of a function that returns Result<Vec<Change>>
PlanErr == [ok |-> FALSE, emitted |-> <<>>, changes |-> <<>>]

\* Config::diff(&self, old) on the disk d: the possible results [ok, emitted, changes]
Diff(self, old, d) ==
    IF \E t \in DOMAIN self.files : MetadataFails(self, old, d, t) THEN {PlanErr}
    ELSE {[ok |-> TRUE, emitted |-> e, changes |-> SortByKey(e, self)]
          : e \in DiffEmitted(self, old, d)}

-----------------------------------------------------------------------------
(* Change::action and construct_command *)

Run(command, sudo) == [type |-> "Run", command |-> command, sudo |-> sudo]
Copy(source, target) == [type |-> "Copy", source |-> source, target |-> target]
CopySudo(source, target) == [type |-> "CopySudo", source |-> source, target |-> target]
StoreFile(content, target) == [type |-> "StoreFile", content |-> content, target |-> target]

\* the error value of a function that returns Result<Vec<Action>>
ActionErr == [ok |-> FALSE, actions |-> <<>>]
ActionOk(list) == [ok |-> TRUE, actions |-> list]

\* construct_command(packages, manager, command)
ConstructCommand(packages, manager, command) ==
    IF manager.seperator # ""
    THEN ActionOk(<<Run(Replace(command, Join(packages, manager.seperator)), manager.sudo)>>)
    ELSE ActionOk([i \in DOMAIN packages |->
                      Run(Replace(command, <<packages[i]>>), manager.sudo)])

\* the arms AddPackage and RemovePackage of Change::action; template is the
\* add or the remove command of the manager
PackageAction(change, cfg) ==
    IF change.manager \notin DOMAIN cfg.managers THEN ActionErr
    ELSE LET manager == cfg.managers[change.manager]
             template == IF change.type = "AddPackage" THEN manager.add ELSE manager.remove
         IN IF IsSome(template) THEN ConstructCommand(change.packages, manager, Unwrap(template))
            ELSE ActionOk(<<>>)

\* tera: add_template_file, Context::from_serialize, render. The template
\* file must be readable; what it renders to is decided by its body and the
\* context, and rendering may fail on either.
Render(d, source, context) ==
    IF Exists(d, source) /\ ~IsDir(d, source)
    THEN {[ok |-> TRUE, text |-> <<OnDisk(source), context>>], [ok |-> FALSE, text |-> <<>>]}
    ELSE {[ok |-> FALSE, text |-> <<>>]}

\* if let Some(command) = &file.post_hook: the Run pushed after the file action
PostHook(file) == IF IsSome(file.post_hook) THEN <<Run(Unwrap(file.post_hook), FALSE)>> ELSE <<>>

\* mutant of CopyFileAction: a template with sudo is rendered like any other
CopyFileActionSudoTemplate(change, cfg, d) ==
    LET file == change.file
        source == file.source
    IN IF IsTemplate(source)
       THEN {IF r.ok THEN ActionOk(<<StoreFile(r.text, change.target)>> \o PostHook(file))
             ELSE ActionErr : r \in Render(d, source, cfg.template)}
       ELSE IF file.sudo THEN {ActionOk(<<CopySudo(source, change.target)>> \o PostHook(file))}
       ELSE {ActionOk(<<Copy(source, change.target)>> \o PostHook(file))}

\* mutant of CopyFileAction: the post-hook is pushed before the file action
CopyFileActionHookFirst(change, cfg, d) ==
    LET file == change.file
        source == file.source
    IN IF IsTemplate(source)
       THEN IF file.sudo THEN {ActionErr}
            ELSE {IF r.ok THEN ActionOk(PostHook(file) \o <<StoreFile(r.text, change.target)>>)
                  ELSE ActionErr : r \in Render(d, source, cfg.template)}
       ELSE IF file.sudo THEN {ActionOk(PostHook(file) \o <<CopySudo(source, change.target)>>)}
       ELSE {ActionOk(PostHook(file) \o <<Copy(source, change.target)>>)}

\* the arm CopyFile of Change::action; the source is file.source as written
CopyFileAction(change, cfg, d) ==
    LET file == change.file
        source == file.source
    IN IF IsTemplate(source)
       THEN IF file.sudo THEN {ActionErr}
            ELSE {IF r.ok THEN ActionOk(<<StoreFile(r.text, change.target)>> \o PostHook(file))
                  ELSE ActionErr : r \in Render(d, source, cfg.template)}
       ELSE IF file.sudo THEN {ActionOk(<<CopySudo(source, change.target)>> \o PostHook(file))}
       ELSE {ActionOk(<<Copy(source, change.target)>> \o PostHook(file))}

\* Change::action(self, config) on the disk d: the possible results [ok, actions]
ActionOf(change, cfg, d) ==
    CASE change.type \in {"AddPackage", "RemovePackage"} -> {PackageAction(change, cfg)}
      [] change.type = "RawCommand" -> {ActionOk(<<Run(change.command, FALSE)>>)}
      [] change.type = "CopyFile" -> CopyFileAction(change, cfg, d)

-----------------------------------------------------------------------------
(* Action::execute and sudo_copy *)

\* the disk after path p was written as a file or a directory
Written(d, p, kind) == Put(d, OnDisk(p), [kind |-> kind, mtime |-> Now(d)])

\* the arms Copy and CopySudo: a directory is copied onto a directory, a file
\* onto a file; the calls into the file system may fail
CopyOutcomes(d, source, target) ==
    IF ~Exists(d, source) THEN {[ok |-> FALSE, disk |-> d]}
    ELSE IF IsDir(d, source)
    THEN IF Exists(d, target) /\ ~IsDir(d, target) THEN {[ok |-> FALSE, disk |-> d]}
         ELSE {[ok |-> TRUE, disk |-> Written(d, target, "dir")],
               [ok |-> FALSE, disk |-> d],
               [ok |-> FALSE, disk |-> Written(d, target, "dir")]}
    ELSE IF IsDir(d, target) THEN {[ok |-> FALSE, disk |-> d]}
         ELSE {[ok |-> TRUE, disk |-> Written(d, target, "file")], [ok |-> FALSE, disk |-> d]}

\* Action::execute(self) on the disk d: the possible outcomes [ok, disk]. A
\* command is run by sh and its exit status decides; what it does to the
\* files of the tree is not followed.
Execute(action, d) ==
    CASE action.type = "Run" -> {[ok |-> TRUE, disk |-> d], [ok |-> FALSE, disk |-> d]}
      [] action.type \in {"Copy", "CopySudo"} -> CopyOutcomes(d, action.source, action.target)
      [] action.type = "StoreFile" ->
            IF IsDir(d, action.target) THEN {[ok |-> FALSE, disk |-> d]}
            ELSE {[ok |-> TRUE, disk |-> Written(d, action.target, "file")],
                  [ok |-> FALSE, disk |-> d]}

-----------------------------------------------------------------------------
(* Reading the configuration file: main.rs, read_config *)

\* toml::from_str on the managers tables, the rest of the tree taken as written
ReadConfig(doc, rest) ==
    [rest EXCEPT !.managers = [m \in DOMAIN doc |-> ManagerFromDoc(doc[m])]]

\* toml::to_string on a manager: sudo, seperator and priority are always
\* written, a None command is left out
ManagerToDoc(manager) ==
    [add |-> manager.add, remove |-> manager.remove, update |-> manager.update,
     sudo |-> Some(manager.sudo), seperator |-> Some(manager.seperator),
     priority |-> Some(manager.priority)]

\* write_config(state_path, config): the content of the state file
WriteConfig(cfg) ==
    [doc |-> [m \in DOMAIN cfg.managers |-> ManagerToDoc(cfg.managers[m])],
     rest |-> [cfg EXCEPT !.managers = EmptyMap]]

\* read_config(state_path).unwrap_or_default()
ReadState(snap) ==
    IF IsSome(snap) THEN ReadConfig(Unwrap(snap).doc, Unwrap(snap).rest) ELSE DefaultConfig

-----------------------------------------------------------------------------
(* The inputs of the plan specification *)

TemplateLeaves == {"a", "b"}

\* leaf strings
LeafValues == {Value(s) : s \in TemplateLeaves}

AddCommand == <<"pacman -S ", Placeholder>>
RemoveCommand == <<"pacman -Rns ", Placeholder>>
UpdateCommands == {<<"pacman -Syu">>, <<"up ", Placeholder>>}
Priorities == {10, DefaultPriority}

\* managers tables: every way of leaving out or writing update, sudo,
\* seperator and priority
ManagerDocs ==
    [add : {Some(AddCommand)}, remove : {Some(RemoveCommand)},
     update : {None} \cup {Some(c) : c \in UpdateCommands},
     sudo : {None, Some(TRUE)},
     seperator : {None, Some(""), Some(" ")},
     priority : {None, Some(10)}]

\* a table that writes nothing but the add command
BareDoc ==
    [add |-> Some(AddCommand), remove |-> None, update |-> None, sudo |-> None,
     seperator |-> None, priority |-> None]
\* a table with a join token, at the default priority
JoinedDoc ==
    [add |-> Some(AddCommand), remove |-> Some(RemoveCommand),
     update |-> Some(<<"up ", Placeholder>>), sudo |-> Some(TRUE),
     seperator |-> Some(" "), priority |-> None]
\* a table with an empty join token, at priority 10
SplitDoc ==
    [add |-> Some(AddCommand), remove |-> Some(RemoveCommand),
     update |-> Some(<<"up ", Placeholder>>), sudo |-> None,
     seperator |-> Some(""), priority |-> Some(10)]

FewManagerDocs ==
    {d \in Maps({"pacman", "cargo"}, {BareDoc, JoinedDoc, SplitDoc}) :
        "cargo" \in DOMAIN d => d["cargo"] = BareDoc}

PackageMaps ==
    {ps \in Maps({"pacman", "cargo"}, {{"vim"}, {"neovim"}, {"vim", "neovim"}, {"rg"}}) :
        /\ "pacman" \in DOMAIN ps => "rg" \notin ps["pacman"]
        /\ "cargo" \in DOMAIN ps => ps["cargo"] = {"rg"}}

Hook(command, priority) == [command |-> command, priority |-> priority]

OnceHooks ==
    Maps({"h1", "h2"}, {Hook(<<"c1">>, DefaultPriority), Hook(<<"c2">>, DefaultPriority),
                        Hook(<<"c1">>, 10)})

UpdateHooks ==
    {hs \in Maps({"u1", "u2"}, {Hook(<<"c3">>, 10), HookFromShorthand(<<"c4">>)}) :
        /\ "u1" \in DOMAIN hs => hs["u1"].priority = 10
        /\ "u2" \in DOMAIN hs => hs["u2"].priority = DefaultPriority}

Target1 == Path("~", "t1", "")
Target2 == Path("/etc", "t2", "")
PlainSource == Path(".", "s", "")
TemplateSource == Path(".", "t", "tera")
TildeSource == Path("~", "s", "")

\* file entries: three sources at two priorities under the first target, the
\* shorthand of the plain source under the second
FileMaps ==
    {fl \in Maps({Target1, Target2},
                 {[FileFromShorthand(src) EXCEPT !.priority = pr]
                    : src \in {PlainSource, TemplateSource, TildeSource}, pr \in Priorities}) :
        Target2 \in DOMAIN fl => fl[Target2] = FileFromShorthand(PlainSource)}

\* template tables that differ in a sequence only
FewTemplates ==
    {EmptyMap} \cup
    {[k \in {"k"} |-> Sequence(sq)] : sq \in UNION {[1..n -> LeafValues] : n \in 0..MaxSeqLen}}

\* the disks on which the sources S and targets T exist or not: a source is
\* a directory or a file, a target is a file
Disks(S, T) ==
    {d \in Maps(S \cup T, [kind : {"file", "dir"}, mtime : 0..MaxTime]) :
        \A q \in DOMAIN d : d[q].kind = "dir" => q \in S /\ d[q].mtime = 0}

\* the disks as far as diff looks at them for the files of a tree
DisksFor(files) ==
    Disks({OnDisk(TildeExpand(files[t].source)) : t \in DOMAIN files},
          {OnDisk(TildeExpand(t)) : t \in DOMAIN files})

\* a tree with one manager, one package and nothing else
BaseDoc == [m \in {"pacman"} |-> JoinedDoc]
BaseTree == [DefaultConfig EXCEPT !.packages = [m \in {"pacman"} |-> {"vim"}]]

\* the state in which a command has read the configuration file with the
\* managers tables doc and the rest new, and the state file with olddoc and old
Read(doc, new, olddoc, old, disk) ==
    /\ document = doc
    /\ config = ReadConfig(doc, new)
    /\ state = ReadConfig(olddoc, old)
    /\ fs = disk

\* the managers and their update commands vary, the snapshot is empty
UpdateInputs ==
    \E doc \in Maps({"pacman", "cargo"}, ManagerDocs \cup {BareDoc}),
       ps \in PackageMaps, hs \in UpdateHooks :
        /\ "cargo" \in DOMAIN doc => doc["cargo"] \in {BareDoc, SplitDoc}
        /\ \A m \in DOMAIN ps : ps[m] # {"neovim"}
        /\ Read(doc, [DefaultConfig EXCEPT !.packages = ps, !.hooks.update = hs],
                EmptyMap, DefaultConfig, EmptyMap)

\* the packages of the tree and of the snapshot vary
PackageInputs ==
    \E doc \in FewManagerDocs, np \in PackageMaps, op \in PackageMaps,
       hs \in Maps({"h1"}, {Hook(<<"c1">>, 10)}) :
        Read(doc, [DefaultConfig EXCEPT !.packages = np, !.hooks.once = hs],
             doc, [DefaultConfig EXCEPT !.packages = op, !.hooks.once = hs], EmptyMap)

\* the once-hooks of the tree and of the snapshot vary
HookInputs ==
    \E nh \in OnceHooks, oh \in OnceHooks :
        Read(BaseDoc, [BaseTree EXCEPT !.hooks.once = nh],
             BaseDoc, [BaseTree EXCEPT !.hooks.once = oh], EmptyMap)

\* the files, the template and the disk vary; the snapshot knows some of the
\* files of the tree
FileInputs ==
    \E nf \in FileMaps, nt \in FewTemplates, ot \in FewTemplates :
        \E known \in SUBSET DOMAIN nf, d \in DisksFor(nf) :
            Read(BaseDoc, [BaseTree EXCEPT !.files = nf, !.template = nt],
                 BaseDoc, [BaseTree EXCEPT !.files = [t \in known |-> nf[t]], !.template = ot],
                 d)

\* there is no snapshot; the managers, packages, hooks and files of the tree vary
FreshInputs ==
    \E doc \in FewManagerDocs, np \in PackageMaps,
       hs \in Maps({"h1"}, {Hook(<<"c1">>, 10)}), nf \in FileMaps :
        /\ \A t \in DOMAIN nf : nf[t].source = TemplateSource <=> nf[t].priority = 10
        /\ \E d \in DisksFor(nf) :
              Read(doc, [DefaultConfig EXCEPT !.packages = np, !.hooks.once = hs, !.files = nf],
                   EmptyMap, DefaultConfig, d)

-----------------------------------------------------------------------------
(* The plan specification: diff and update as functions of the tree, the     *)
(* snapshot and the disk                                                    *)

InitPlan ==
    /\ UpdateInputs \/ PackageInputs \/ HookInputs \/ FileInputs \/ FreshInputs
    /\ snapshot = None
    /\ pc = "read"
    /\ emitted = <<>> /\ changes = <<>> /\ actions = <<>> /\ log = <<>>
    /\ frags = <<>> /\ merged = <<>>

\* let diff = config.diff(state)
RunDiff ==
    /\ pc = "read"
    /\ \E r \in Diff(config, state, fs) :
          /\ emitted' = r.emitted
          /\ changes' = r.changes
          /\ pc' = IF r.ok THEN "diffed" ELSE "diff failed"
    /\ UNCHANGED <<document, config, state, fs, snapshot, actions, log, frags, merged>>

\* let changes = config.update()
RunUpdate ==
    /\ pc = "read"
    /\ \E r \in Update(config) :
          /\ emitted' = r.emitted
          /\ changes' = r.changes
          /\ pc' = "updated"
    /\ UNCHANGED <<document, config, state, fs, snapshot, actions, log, frags, merged>>

NextPlan == RunDiff \/ RunUpdate

SpecPlan == InitPlan /\ [][NextPlan]_vars

-----------------------------------------------------------------------------
(* The inputs of the combine specification *)

TemplateKeys == {"k", "j"}
NestedKeys == {"x", "y"}

\* leaf strings, sequences of leaf strings, mappings of leaf strings
NestedValues ==
    LeafValues
    \cup {Sequence(s) : s \in UNION {[1..n -> LeafValues] : n \in 0..MaxSeqLen}}
    \cup {Mapping(m) : m \in Maps(NestedKeys, LeafValues)}

\* the template tables of the input trees: any value under "k", a leaf under "j"
Templates ==
    {t \in Maps(TemplateKeys, NestedValues) : "j" \in DOMAIN t => t["j"] = Value("a")}

PacmanJoined ==
    [add |-> Some(<<"pacman -S ", Placeholder>>), remove |-> Some(<<"pacman -Rns ", Placeholder>>),
     update |-> Some(<<"pacman -Syu">>), sudo |-> TRUE, seperator |-> " ",
     priority |-> DefaultPriority]
PacmanSplit == [PacmanJoined EXCEPT !.seperator = "", !.sudo = FALSE]

\* trees that differ in the template only
TemplateFrags == {[DefaultConfig EXCEPT !.template = t] : t \in Templates}

\* trees that differ in the managers, packages, hooks and files only
MapFrags ==
    {[DefaultConfig EXCEPT !.managers = ms, !.packages = ps,
                           !.hooks = [once |-> hs, update |-> hs], !.files = fl]
       : ms \in Maps({"pacman"}, {PacmanJoined, PacmanSplit}),
         ps \in Maps({"pacman"}, {{"vim"}, {"git"}}),
         hs \in Maps({"h1"}, {HookFromShorthand(<<"c1">>)}),
         fl \in Maps({Path("~", "t1", "")}, {FileFromShorthand(Path(".", "s", "txt"))})}


-----------------------------------------------------------------------------
(* The combine specification: three trees A, B, C = frags[1..3] are folded   *)
(* as (A + B) + C, as A + (B + C) and as B + A.                             *)

\* `a.combine(b)?; a.combine(c)?`: the second call is not made when the first fails
AndThen(first, other) == IF first.ok THEN Combine(first.tree, other) ELSE {first}

InitCombine ==
    /\ \/ \E a \in TemplateFrags, b \in TemplateFrags, c \in TemplateFrags : frags = <<a, b, c>>
       \/ \E a \in MapFrags, b \in MapFrags, c \in MapFrags : frags = <<a, b, c>>
    /\ merged = [ab |-> None, ab_c |-> None, bc |-> None, a_bc |-> None, ba |-> None]
    /\ pc = "combine"
    /\ document = EmptyMap
    /\ config = DefaultConfig /\ state = DefaultConfig /\ fs = EmptyMap /\ snapshot = None
    /\ emitted = <<>> /\ changes = <<>> /\ actions = <<>> /\ log = <<>>

UnchangedRun == UNCHANGED <<document, config, state, fs, snapshot, emitted, changes, actions, log>>

\* (A + B) + C
CombineLeft ==
    /\ pc = "combine" /\ merged.ab = None
    /\ \E r1 \in Combine(frags[1], frags[2]) : \E r2 \in AndThen(r1, frags[3]) :
          merged' = [merged EXCEPT !.ab = Some(r1), !.ab_c = Some(r2)]
    /\ UNCHANGED <<frags, pc>> /\ UnchangedRun

\* A + (B + C)
CombineRight ==
    /\ pc = "combine" /\ merged.ab # None /\ merged.bc = None
    /\ \E r1 \in Combine(frags[2], frags[3]) :
          \E r2 \in (IF r1.ok THEN Combine(frags[1], r1.tree)
                     ELSE {[ok |-> FALSE, tree |-> frags[1]]}) :
             merged' = [merged EXCEPT !.bc = Some(r1), !.a_bc = Some(r2)]
    /\ UNCHANGED <<frags, pc>> /\ UnchangedRun

\* B + A
CombineSwapped ==
    /\ pc = "combine" /\ merged.bc # None /\ merged.ba = None
    /\ \E r \in Combine(frags[2], frags[1]) : merged' = [merged EXCEPT !.ba = Some(r)]
    /\ pc' = "combined"
    /\ UNCHANGED frags /\ UnchangedRun

NextCombine == CombineLeft \/ CombineRight \/ CombineSwapped

SpecCombine == InitCombine /\ [][NextCombine]_vars

-----------------------------------------------------------------------------
(* Config::load_dependencies. The fragment files are a map from the import   *)
(* names to [parsed, tree]: a name that is not a key is a missing file,      *)
(* parsed = FALSE a file toml::from_str rejects. All names are taken from    *)
(* one directory.                                                            *)

RECURSIVE LoadDependencies(_, _)
RECURSIVE LoadImports(_, _, _)

\* the loop over self.module.import in the iteration order ord: an outcome is
\* [ok, tree] with tree the value left in self
LoadImports(self, dir, ord) ==
    IF ord = <<>> THEN {[ok |-> TRUE, tree |-> [self EXCEPT !.module = DefaultModule]]}
    ELSE LET module == Head(ord) IN
         IF module \notin DOMAIN dir \/ ~dir[module].parsed THEN {[ok |-> FALSE, tree |-> self]}
         ELSE UNION {IF ~l.ok THEN {[ok |-> FALSE, tree |-> self]}
                     ELSE UNION {IF c.ok THEN LoadImports(c.tree, dir, Tail(ord))
                                 ELSE {[ok |-> FALSE, tree |-> c.tree]}
                                 : c \in Combine(self, l.tree)}
                     : l \in LoadDependencies(dir[module].tree, dir)}

\* Config::load_dependencies(&mut self, directory)
LoadDependencies(self, dir) ==
    IF self.module.disable THEN {[ok |-> TRUE, tree |-> DefaultConfig]}
    ELSE UNION {LoadImports(self, dir, ord) : ord \in Orders(self.module.import)}

\* the template tables of the trees that are resolved
FewValues == {EmptyMap, [k \in {"k"} |-> Value("a")], [k \in {"k"} |-> Sequence(<<Value("a")>>)]}

\* the tree load_dependencies is called on: it imports a, b or both
RootTrees ==
    {[DefaultConfig EXCEPT !.module = [import |-> imports, disable |-> disable],
                           !.managers = ms, !.template = tp]
       : imports \in SUBSET {"a", "b"}, disable \in BOOLEAN,
         ms \in Maps({"pacman"}, {PacmanJoined}), tp \in FewValues}

Unparsable == [parsed |-> FALSE, tree |-> DefaultConfig]
Parsed(tree) == [parsed |-> TRUE, tree |-> tree]

\* the fragment a: it may import c, and may be disabled
FragmentsA ==
    {[DefaultConfig EXCEPT !.module = [import |-> imports, disable |-> disable],
                           !.managers = ms, !.packages = ps, !.template = tp]
       : imports \in {{}, {"c"}}, disable \in BOOLEAN,
         ms \in Maps({"pacman"}, {PacmanSplit}), ps \in Maps({"pacman"}, {{"vim"}}),
         tp \in FewValues}

FragmentsB ==
    {[DefaultConfig EXCEPT !.managers = ms, !.template = tp]
       : ms \in Maps({"cargo"}, {PacmanJoined}), tp \in FewValues}

FragmentsC ==
    {[DefaultConfig EXCEPT !.files = fl, !.template = tp]
       : fl \in Maps({Path("~", "t1", "")}, {FileFromShorthand(Path(".", "s", "txt"))}),
         tp \in {EmptyMap, [k \in {"k"} |-> Value("b")]}}

InitResolve ==
    /\ config \in RootTrees
    /\ \E a \in {Unparsable} \cup {Parsed(t) : t \in FragmentsA},
          b \in {Unparsable} \cup {Parsed(t) : t \in FragmentsB},
          c \in {Unparsable} \cup {Parsed(t) : t \in FragmentsC},
          present \in SUBSET {"a", "b", "c"} :
          frags = [n \in present |-> CASE n = "a" -> a [] n = "b" -> b [] OTHER -> c]
    /\ merged = None
    /\ pc = "resolve"
    /\ document = EmptyMap
    /\ state = DefaultConfig /\ fs = EmptyMap /\ snapshot = None
    /\ emitted = <<>> /\ changes = <<>> /\ actions = <<>> /\ log = <<>>

\* config.load_dependencies(directory)?: merged is the outcome, config the
\* tree as it was before the call
Resolve ==
    /\ pc = "resolve"
    /\ \E r \in LoadDependencies(config, frags) :
          /\ merged' = Some(r)
          /\ pc' = IF r.ok THEN "resolved" ELSE "resolve failed"
    /\ UNCHANGED frags /\ UnchangedRun

SpecResolve == InitResolve /\ [][Resolve]_vars

-----------------------------------------------------------------------------
(* The commands apply and update: main.rs, main *)

\* what a run has done so far
Compiled(change, list) == [ev |-> "compiled", change |-> change, actions |-> list]
CompileFailed(change) == [ev |-> "compile failed", change |-> change]
Executed(action) == [ev |-> "executed", action |-> action]
ExecuteFailed(action) == [ev |-> "execute failed", action |-> action]
Wrote == [ev |-> "wrote"]
WriteFailed == [ev |-> "write failed"]

\* the number of changes of the plan whose compilation was attempted
Taken(l) == Len(SelectSeq(l, LAMBDA e : e.ev \in {"compiled", "compile failed"}))

Running == pc \in {"apply", "update"}

\* Command::Apply: read the configuration and the state, compute the diff
Apply ==
    /\ pc = "idle"
    /\ state' = ReadState(snapshot)
    /\ \E r \in Diff(config, ReadState(snapshot), fs) :
          /\ emitted' = r.emitted
          /\ changes' = r.changes
          /\ pc' = IF r.ok THEN "apply" ELSE "failed"
    /\ actions' = <<>> /\ log' = <<>>
    /\ UNCHANGED <<document, config, fs, snapshot, frags, merged>>

\* Command::Update: read the configuration and the state, compute the update plan
UpdateAll ==
    /\ pc = "idle"
    /\ state' = ReadState(snapshot)
    /\ \E r \in Update(config) :
          /\ emitted' = r.emitted
          /\ changes' = r.changes
          /\ pc' = "update"
    /\ actions' = <<>> /\ log' = <<>>
    /\ UNCHANGED <<document, config, fs, snapshot, frags, merged>>

\* `let actions = change.action(&config)?` for the next change of the plan
Compile ==
    /\ Running /\ actions = <<>> /\ Taken(log) < Len(changes)
    /\ LET change == changes[Taken(log) + 1] IN
       \E r \in ActionOf(change, config, fs) :
          IF r.ok
          THEN /\ actions' = r.actions
               /\ log' = Append(log, Compiled(change, r.actions))
               /\ pc' = pc
          ELSE /\ actions' = <<>>
               /\ log' = Append(log, CompileFailed(change))
               /\ pc' = "failed"
    /\ UNCHANGED <<document, config, state, fs, snapshot, emitted, changes, frags, merged>>

\* mutant of ExecuteNext: a failed action is reported and the run goes on
ExecuteNextBestEffort ==
    /\ Running /\ actions # <<>>
    /\ \E r \in Execute(Head(actions), fs) :
          /\ fs' = r.disk
          /\ actions' = Tail(actions)
          /\ log' = Append(log, IF r.ok THEN Executed(Head(actions))
                                ELSE ExecuteFailed(Head(actions)))
          /\ pc' = pc
    /\ UNCHANGED <<document, config, state, snapshot, emitted, changes, frags, merged>>

\* `action.execute()?` for the next action of the change
ExecuteNext ==
    /\ Running /\ actions # <<>>
    /\ \E r \in Execute(Head(actions), fs) :
          /\ fs' = r.disk
          /\ IF r.ok
             THEN /\ actions' = Tail(actions)
                  /\ log' = Append(log, Executed(Head(actions)))
                  /\ pc' = pc
             ELSE /\ actions' = actions
                  /\ log' = Append(log, ExecuteFailed(Head(actions)))
                  /\ pc' = "failed"
    /\ UNCHANGED <<document, config, state, snapshot, emitted, changes, frags, merged>>

\* write_config(&cli.state_path(), &config)?, after the loop over the plan
WriteState ==
    /\ Running /\ actions = <<>> /\ Taken(log) = Len(changes)
    /\ \/ /\ snapshot' = Some(WriteConfig(config))
          /\ log' = Append(log, Wrote)
          /\ pc' = IF pc = "apply" THEN "applied" ELSE "updated"
       \/ /\ snapshot' = snapshot
          /\ log' = Append(log, WriteFailed)
          /\ pc' = "failed"
    /\ UNCHANGED <<document, config, state, fs, emitted, changes, actions, frags, merged>>

\* the process exits; the next command starts from the files it left
Exit ==
    /\ pc \in {"applied", "updated", "failed"}
    /\ pc' = "idle"
    /\ state' = DefaultConfig /\ emitted' = <<>> /\ changes' = <<>>
    /\ actions' = <<>> /\ log' = <<>>
    /\ UNCHANGED <<document, config, fs, snapshot, frags, merged>>

-----------------------------------------------------------------------------
(* The inputs of the run specification *)

SudoFile == [FileFromShorthand(PlainSource) EXCEPT !.sudo = TRUE]
HookedFile == [FileFromShorthand(PlainSource) EXCEPT !.post_hook = Some(<<"reload">>)]
SudoTemplateFile == [FileFromShorthand(TemplateSource) EXCEPT !.sudo = TRUE, !.priority = 10]

RunFiles ==
    Maps({Target1}, {FileFromShorthand(PlainSource), FileFromShorthand(TemplateSource),
                     FileFromShorthand(TildeSource), SudoFile, HookedFile, SudoTemplateFile})

RunDocs == [{"pacman"} -> {JoinedDoc, SplitDoc}]
RunPackages == Maps({"pacman"}, {{"vim"}, {"vim", "neovim"}})
RunHooks == Maps({"h1"}, {Hook(<<"c1">>, 10)})
RunUpdateHooks == Maps({"u1"}, {Hook(<<"c3">>, 10)})
RunTemplates == {EmptyMap, [k \in {"k"} |-> Sequence(<<Value("a")>>)]}

\* the disks of a run: the source is missing, a file or a directory; the
\* target is missing, a file, or a directory when the source is one
RunDisks(files) ==
    {d \in Maps({OnDisk(TildeExpand(files[t].source)) : t \in DOMAIN files}
                  \cup {OnDisk(TildeExpand(t)) : t \in DOMAIN files},
                [kind : {"file", "dir"}, mtime : 0..MaxTime]) :
        /\ \A q \in DOMAIN d : d[q].kind = "dir" => d[q].mtime = 0
        /\ \A t \in DOMAIN files :
              LET tgt == OnDisk(TildeExpand(t))
                  src == OnDisk(TildeExpand(files[t].source))
              IN (tgt \in DOMAIN d /\ d[tgt].kind = "dir")
                     => (src \in DOMAIN d /\ d[src].kind = "dir")}

-----------------------------------------------------------------------------
(* The run specification: commands run one after the other on a              *)
(* configuration, a state file and a disk                                   *)

Init ==
    /\ \E doc \in RunDocs, ps \in RunPackages, hs \in RunHooks, us \in RunUpdateHooks,
          fl \in RunFiles, tp \in RunTemplates :
          /\ document = doc
          /\ config = ReadConfig(doc, [DefaultConfig EXCEPT !.packages = ps, !.hooks.once = hs,
                                                            !.hooks.update = us,
                                                            !.files = fl, !.template = tp])
          /\ fs \in RunDisks(fl)
          /\ \/ snapshot = None
             \/ \E op \in RunPackages, known \in SUBSET DOMAIN fl, ot \in RunTemplates :
                   snapshot = Some(WriteConfig(
                       ReadConfig(doc, [DefaultConfig EXCEPT
                                          !.packages = op, !.hooks.once = hs, !.hooks.update = us,
                                          !.files = [t \in known |-> fl[t]], !.template = ot])))
    /\ pc = "idle"
    /\ state = DefaultConfig
    /\ emitted = <<>> /\ changes = <<>> /\ actions = <<>> /\ log = <<>>
    /\ frags = <<>> /\ merged = <<>>

Next == Apply \/ UpdateAll \/ Compile \/ ExecuteNext \/ WriteState \/ Exit

Spec == Init /\ [][Next]_vars

-----------------------------------------------------------------------------
(* The compile specification: Change::action as a function of the change,   *)
(* the tree and the disk                                                    *)

CompileFiles ==
    [source : {PlainSource, TemplateSource, TildeSource, Path("~", "t", "tera")},
     priority : Priorities, post_hook : {None, Some(<<"reload">>)}, sudo : BOOLEAN]

CompileChanges ==
    {CopyFile(f, t) : f \in CompileFiles, t \in {TildeExpand(Target1), Target2}}
    \cup {RawCommand(<<"c1">>, pr) : pr \in Priorities}
    \cup UNION {{AddPackage(m, ps), RemovePackage(m, ps)}
                  : m \in {"pacman", "cargo"},
                    ps \in {<<"vim">>, <<"vim", "neovim">>, <<"neovim", "vim">>,
                            <<"vim", "neovim", "git">>}}

InitCompile ==
    /\ \E change \in CompileChanges,
          doc \in Maps({"pacman"}, {BareDoc, JoinedDoc, SplitDoc}),
          tp \in RunTemplates :
          /\ document = doc
          /\ config = ReadConfig(doc, [DefaultConfig EXCEPT !.template = tp])
          /\ changes = <<change>>
          /\ fs \in Maps({OnDisk(TemplateSource)}, {[kind |-> "file", mtime |-> 0]})
    /\ pc = "apply"
    /\ state = DefaultConfig /\ snapshot = None
    /\ emitted = <<>> /\ actions = <<>> /\ log = <<>>
    /\ frags = <<>> /\ merged = <<>>

SpecCompile == InitCompile /\ [][Compile]_vars

-----------------------------------------------------------------------------
(* Claims about combine, under SpecCombine *)

A == frags[1]
B == frags[2]
C == frags[3]

\* the comparison of two trees, field by field, with the equality of the code
SameTree(s, t) ==
    /\ s.managers = t.managers
    /\ s.packages = t.packages
    /\ s.hooks = t.hooks
    /\ s.files = t.files
    /\ TemplateContextEq(s.template, t.template)

\* every call of combine on A, B, C succeeded: the inputs are conflict-free
ConflictFree ==
    /\ pc = "combined"
    /\ Unwrap(merged.ab).ok /\ Unwrap(merged.ab_c).ok
    /\ Unwrap(merged.bc).ok /\ Unwrap(merged.a_bc).ok
    /\ Unwrap(merged.ba).ok

\* two maps give the same value to every key both hold
AgreeOn(m, o) == \A k \in DOMAIN m \cap DOMAIN o : m[k] = o[k]

\* two trees give the same value to every manager, hook and file both declare
Agree(s, t) ==
    /\ AgreeOn(s.managers, t.managers)
    /\ AgreeOn(s.hooks.once, t.hooks.once)
    /\ AgreeOn(s.hooks.update, t.hooks.update)
    /\ AgreeOn(s.files, t.files)

Associative ==
    /\ SameTree(Unwrap(merged.ab_c).tree, Unwrap(merged.a_bc).tree)
    /\ SameTree(Unwrap(merged.a_bc).tree, Unwrap(merged.ab_c).tree)

Commutative ==
    /\ SameTree(Unwrap(merged.ab).tree, Unwrap(merged.ba).tree)
    /\ SameTree(Unwrap(merged.ba).tree, Unwrap(merged.ab).tree)

\* C5 as stated: on conflict-free inputs (A combine B) combine C equals
\* A combine (B combine C), and A combine B equals B combine A.
C5_AssociativeAndCommutative == ConflictFree => Associative /\ Commutative

\* C5 amended: on conflict-free inputs combine is associative; A combine B equals
\* B combine A when, in addition, A and B give the same value to every manager,
\* hook and file key that both declare (the incoming entry replaces the present
\* one, so the order decides which value a shared key keeps).
C5_AssociativeCommutativeWhenAgreeing ==
    ConflictFree => Associative /\ (Agree(A, B) => Commutative)

\* C5 witness: three different conflict-free trees whose templates share the
\* key "k", and A combine B differs from B combine A as a value although the
\* two compare equal.
C5_Witness ==
    /\ ConflictFree /\ Agree(A, B)
    /\ A # B /\ B # C /\ A # C
    /\ "k" \in DOMAIN A.template \cap DOMAIN B.template \cap DOMAIN C.template
    /\ Unwrap(merged.ab).tree # Unwrap(merged.ba).tree

\* a leaf/kind conflict between two template values under the same key
RECURSIVE ValueConflict(_, _)
ValueConflict(x, y) ==
    \/ x.kind # y.kind
    \/ x.kind = "Value" /\ x.v # y.v
    \/ /\ x.kind = "Mapping"
       /\ \E k \in DOMAIN x.m \cap DOMAIN y.m : ValueConflict(x.m[k], y.m[k])

\* a leaf/kind conflict between two template tables under the same key path
TemplateConflict(s, t) ==
    \E k \in DOMAIN s.template \cap DOMAIN t.template :
        ValueConflict(s.template[k], t.template[k])

\* C6: combining two trees whose templates hold, under the same key path,
\* leaf strings with different values or values of different kinds fails,
\* whichever of the two is the target.
C6_ConflictFailsBothWays ==
    pc = "combined" =>
        /\ TemplateConflict(A, B) => ~Unwrap(merged.ab).ok /\ ~Unwrap(merged.ba).ok
        /\ TemplateConflict(B, C) => ~Unwrap(merged.bc).ok /\ ~Unwrap(merged.a_bc).ok

\* C6 witness: two different leaf strings under the same key of a nested
\* mapping, and both orders have been tried.
C6_Witness ==
    /\ pc = "combined"
    /\ "k" \in DOMAIN A.template \cap DOMAIN B.template
    /\ A.template["k"].kind = "Mapping" /\ B.template["k"].kind = "Mapping"
    /\ \E x \in DOMAIN A.template["k"].m \cap DOMAIN B.template["k"].m :
          /\ A.template["k"].m[x].kind = "Value" /\ B.template["k"].m[x].kind = "Value"
          /\ A.template["k"].m[x].v # B.template["k"].m[x].v
    /\ ~Unwrap(merged.ab).ok /\ ~Unwrap(merged.ba).ok

-----------------------------------------------------------------------------
(* Claims about diff and update, under SpecPlan *)

\* the positions of the plan that hold a change of one of the given types
Of(types) == {i \in DOMAIN changes : changes[i].type \in types}

\* the plan holds a CopyFile for the entry of the tree under the target
Copied(target) ==
    \E i \in Of({"CopyFile"}) :
        /\ changes[i].file = config.files[target]
        /\ changes[i].target = ResolvedTarget(fs, target)

\* the disk asks for a copy of the entry: its target is missing, its source
\* is a directory, or its source is strictly newer than its target
DiskAsksForCopy(target) ==
    LET src == ResolvedSource(fs, config.files[target])
        tgt == ResolvedTarget(fs, target)
    IN \/ ~Exists(fs, tgt)
       \/ IsDir(fs, src)
       \/ (Exists(fs, src) /\ fs[OnDisk(src)].mtime > fs[OnDisk(tgt)].mtime)

\* C1 as stated: diff(new, new) holds no CopyFile, no AddPackage, no
\* RemovePackage and no RawCommand, whatever the disk.
C1_NothingToDoWhateverTheDisk ==
    (pc = "diffed" /\ state = config) => changes = <<>>

\* C1 amended: diff(new, new) holds no AddPackage, no RemovePackage and no
\* RawCommand; it holds a CopyFile for exactly the files whose target is
\* missing, whose source is a directory or whose source is strictly newer than
\* the target, and it fails only when a file's target exists and its source
\* does not.
C1_OnlyCopiesTheDiskAsksFor ==
    state = config =>
        /\ pc = "diffed" =>
              /\ Of({"AddPackage", "RemovePackage", "RawCommand"}) = {}
              /\ \A t \in DOMAIN config.files : Copied(t) <=> DiskAsksForCopy(t)
              /\ Cardinality(Of({"CopyFile"})) <= Cardinality(DOMAIN config.files)
        /\ pc = "diff failed" =>
              \E t \in DOMAIN config.files :
                  /\ Exists(fs, ResolvedTarget(fs, t))
                  /\ ~Exists(fs, ResolvedSource(fs, config.files[t]))

\* C1 witness: the snapshot equals a tree with two files whose targets exist;
\* one source is a file as old as its target and is left alone, the other is
\* newer than its target and is copied.
C1_Witness ==
    /\ pc = "diffed" /\ state = config
    /\ Cardinality(DOMAIN config.files) = 2
    /\ \A t \in DOMAIN config.files :
          /\ Exists(fs, ResolvedTarget(fs, t))
          /\ Exists(fs, ResolvedSource(fs, config.files[t]))
          /\ ~IsDir(fs, ResolvedSource(fs, config.files[t]))
    /\ \E t \in DOMAIN config.files :
          Modified(fs, ResolvedSource(fs, config.files[t])) = Modified(fs, ResolvedTarget(fs, t))
    /\ Cardinality(Of({"CopyFile"})) = 1

\* the plan lists the package under the manager in an AddPackage change
Added(manager, package) ==
    \E i \in Of({"AddPackage"}) :
        /\ changes[i].manager = manager
        /\ \E j \in DOMAIN changes[i].packages : changes[i].packages[j] = package

\* the plan holds a RawCommand with the command and priority of the once-hook
Ran(name) ==
    \E i \in Of({"RawCommand"}) :
        /\ changes[i].command = config.hooks.once[name].command
        /\ changes[i].priority = config.hooks.once[name].priority

\* what diff(new, default) holds for the files and the once-hooks
FreshFilesAndHooks ==
    /\ \A t \in DOMAIN config.files : Copied(t)
    /\ Cardinality(Of({"CopyFile"})) = Cardinality(DOMAIN config.files)
    /\ \A h \in DOMAIN config.hooks.once : Ran(h)
    /\ Cardinality(Of({"RawCommand"})) = Cardinality(DOMAIN config.hooks.once)

\* C3 as stated: diff(new, default) holds a CopyFile for every target, a
\* RawCommand for every once-hook and lists every package of every set of
\* new.packages in an AddPackage.
C3_EverythingIsNew ==
    (pc = "diffed" /\ state = DefaultConfig) =>
        /\ FreshFilesAndHooks
        /\ \A m \in DOMAIN config.packages : \A p \in config.packages[m] : Added(m, p)

\* C3 amended: diff(new, default) succeeds and holds a CopyFile for every
\* target, a RawCommand for every once-hook, and lists in an AddPackage every
\* package of every set of new.packages whose manager name is a key of
\* new.managers; the sets under other names produce no change.
C3_EverythingOfADeclaredManagerIsNew ==
    state = DefaultConfig =>
        /\ pc # "diff failed"
        /\ pc = "diffed" =>
              /\ FreshFilesAndHooks
              /\ \A m \in DOMAIN config.packages : \A p \in config.packages[m] :
                    Added(m, p) <=> m \in DOMAIN config.managers
              /\ Of({"RemovePackage"}) = {}

\* C3 witness: no snapshot, and a tree with a file whose target exists, a
\* once-hook, packages under a declared manager and under an undeclared one.
C3_Witness ==
    /\ pc = "diffed" /\ state = DefaultConfig
    /\ \E t \in DOMAIN config.files : Exists(fs, ResolvedTarget(fs, t))
    /\ DOMAIN config.hooks.once # {}
    /\ \E m \in DOMAIN config.packages \cap DOMAIN config.managers : config.packages[m] # {}
    /\ DOMAIN config.packages \ DOMAIN config.managers # {}

\* the changes of a list that have the priority p, in the order of the list
AtPriority(list, p) == SelectSeq(list, LAMBDA c : Priority(c, config) = p)

\* C4: the list returned by diff and by update is in non-decreasing priority
\* order and is a stable sort of the push order: the changes of each priority
\* keep their push order, and the RemovePackage of a manager stands before
\* its AddPackage.
C4_StableAscendingPriority ==
    pc \in {"diffed", "updated"} =>
        /\ \A i, j \in DOMAIN changes :
              i < j => Priority(changes[i], config) <= Priority(changes[j], config)
        /\ Len(changes) = Len(emitted)
        /\ \A p \in {Priority(emitted[i], config) : i \in DOMAIN emitted} :
              AtPriority(changes, p) = AtPriority(emitted, p)
        /\ \A i \in Of({"RemovePackage"}), j \in Of({"AddPackage"}) :
              changes[i].manager = changes[j].manager => i < j

\* C4 witness: a manager has removed and added packages, and the sort moved
\* a change of lower priority in front of them.
C4_Witness ==
    /\ pc = "diffed"
    /\ \E i \in Of({"RemovePackage"}), j \in Of({"AddPackage"}) :
          changes[i].manager = changes[j].manager
    /\ changes # emitted

\* the number of RawCommand changes of the plan a manager with an update
\* command accounts for
UpdateCount(m) ==
    IF config.managers[m].update = None THEN 0
    ELSE IF config.managers[m].seperator # "" THEN 1
    ELSE Cardinality(GetOrEmpty(config.packages, m))

RECURSIVE Sum(_, _)
Sum(f, S) == IF S = {} THEN 0 ELSE LET x == CHOOSE y \in S : TRUE IN f[x] + Sum(f, S \ {x})

\* the command text update runs for a manager
UpdateText(m) ==
    IF config.managers[m].sudo THEN <<"sudo ">> \o Unwrap(config.managers[m].update)
    ELSE Unwrap(config.managers[m].update)

\* the plan holds the one command of the manager with all its packages joined
JoinedOnce(m) ==
    \E i \in Of({"RawCommand"}), ord \in Orders(GetOrEmpty(config.packages, m)) :
        /\ changes[i].priority = config.managers[m].priority
        /\ changes[i].command =
              Replace(UpdateText(m), Join(ord, config.managers[m].seperator))

\* the plan holds one command of the manager for each of its packages
OncePerPackage(m) ==
    \A p \in GetOrEmpty(config.packages, m) :
        \E i \in Of({"RawCommand"}) :
            /\ changes[i].priority = config.managers[m].priority
            /\ changes[i].command = Replace(UpdateText(m), <<p>>)

\* the plan holds the command of every update hook
UpdateHooksRun ==
    \A h \in DOMAIN config.hooks.update :
        \E i \in Of({"RawCommand"}) :
            /\ changes[i].command = config.hooks.update[h].command
            /\ changes[i].priority = config.hooks.update[h].priority

Updating == {m \in DOMAIN config.managers : config.managers[m].update # None}

HooksToRun ==
    {h \in DOMAIN config.hooks.once :
        \/ h \notin DOMAIN state.hooks.once
        \/ state.hooks.once[h].command # config.hooks.once[h].command}

\* C10: diff emits a RawCommand with the command and priority of a once-hook
\* of the tree if and only if the hook is absent from the snapshot or has
\* another command there; counted with multiplicity, the RawCommand changes
\* of the plan are the hooks to run.
C10_RunOnce ==
    pc = "diffed" =>
        \A r \in {config.hooks.once[h] : h \in DOMAIN config.hooks.once} :
            Cardinality({i \in Of({"RawCommand"}) :
                            changes[i].command = r.command /\ changes[i].priority = r.priority})
            = Cardinality({h \in HooksToRun : config.hooks.once[h] = r})
        /\ Cardinality(Of({"RawCommand"})) = Cardinality(HooksToRun)

\* C10 witness: one hook kept its command and changed its priority, another
\* changed its command, and diff emitted one RawCommand.
C10_Witness ==
    /\ pc = "diffed"
    /\ \E h \in DOMAIN config.hooks.once \cap DOMAIN state.hooks.once :
          /\ config.hooks.once[h].command = state.hooks.once[h].command
          /\ config.hooks.once[h].priority # state.hooks.once[h].priority
    /\ \E h \in DOMAIN config.hooks.once \cap DOMAIN state.hooks.once :
          config.hooks.once[h].command # state.hooks.once[h].command
    /\ Cardinality(Of({"RawCommand"})) = 1

-----------------------------------------------------------------------------
(* Claims about Change::action, under SpecCompile *)

\* C8: compiling a CopyFile whose file has sudo = true and whose source is a
\* template fails and produces no action, whatever the other fields of the
\* file are: no StoreFile, Copy or CopySudo, and no Run for the post-hook.
C8_SudoTemplateFails ==
    (/\ log # <<>>
     /\ changes[1].type = "CopyFile"
     /\ changes[1].file.sudo
     /\ IsTemplate(changes[1].file.source))
    => /\ pc = "failed"
       /\ actions = <<>>
       /\ log = <<CompileFailed(changes[1])>>

\* C8 witness: a CopyFile with sudo, a template source that exists on the
\* disk and a post-hook has been compiled.
C8_Witness ==
    /\ log # <<>>
    /\ changes[1].type = "CopyFile"
    /\ changes[1].file.sudo
    /\ changes[1].file.source = TemplateSource
    /\ Exists(fs, TemplateSource)
    /\ changes[1].file.post_hook # None
    /\ pc = "failed"

-----------------------------------------------------------------------------
(* Claims about the commands, under Spec *)

\* C2: after apply has compiled and executed every action of diff(new, old)
\* and has written the snapshot, diff(new, new) is the empty list.
C2_ApplyIsIdempotent ==
    pc = "applied" =>
        \A r \in Diff(config, ReadState(snapshot), fs) : r.ok /\ r.changes = <<>>

Failures == {"compile failed", "execute failed", "write failed"}

\* the events of a kind, in the order of the run
Events(kinds) == SelectSeq(log, LAMBDA e : e.ev \in kinds)

\* the actions of the changes compiled so far, in the order of the plan
CompiledActions == Flatten([i \in DOMAIN Events({"compiled"}) |-> Events({"compiled"})[i].actions])

\* the actions whose execution was attempted, in the order of the run
TriedActions ==
    [i \in DOMAIN Events({"executed", "execute failed"}) |->
        Events({"executed", "execute failed"})[i].action]

\* C9: the changes are compiled and their actions executed in the order of
\* the plan; a failure is the last thing a run does, and then the snapshot is
\* the one the run started with; the snapshot is written only after every
\* change of the plan was compiled and every action executed successfully.
C9_FailFast ==
    /\ \A i \in DOMAIN log : log[i].ev \in Failures \cup {"wrote"} => i = Len(log)
    /\ \A i \in 1..Taken(log) :
          Events({"compiled", "compile failed"})[i].change = changes[i]
    /\ Len(TriedActions) <= Len(CompiledActions)
    /\ TriedActions = SubSeq(CompiledActions, 1, Len(TriedActions))
    /\ (pc = "failed" \/ Running) => ReadState(snapshot) = state
    /\ pc = "failed" => (log = <<>> \/ log[Len(log)].ev \in Failures)
    /\ (log # <<>> /\ log[Len(log)].ev = "wrote") =>
          /\ pc \in {"applied", "updated"}
          /\ snapshot = Some(WriteConfig(config))
          /\ Taken(log) = Len(changes)
          /\ Events({"executed"}) = [i \in DOMAIN CompiledActions |-> Executed(CompiledActions[i])]
          /\ Events(Failures) = <<>>
    /\ pc \in {"applied", "updated"} => (log # <<>> /\ log[Len(log)].ev = "wrote")

\* C9 witness: an action failed after another had been executed, changes of
\* the plan are left that were never compiled, and the state file holds a
\* snapshot other than the tree.
C9_Witness ==
    /\ pc = "failed"
    /\ Events({"executed"}) # <<>>
    /\ log[Len(log)].ev = "execute failed"
    /\ Taken(log) < Len(changes)
    /\ snapshot # None /\ snapshot # Some(WriteConfig(config))

\* the number of changes compiled before the i-th event of the run
CompiledBefore(i) == Len(SelectSeq(SubSeq(log, 1, i), LAMBDA e : e.ev = "compiled"))

\* C11: in a run of apply or update no action is executed before every
\* change of the plan has been compiled, so a run in which the compilation
\* of a change failed has executed no action.
C11_CompileAllThenExecute ==
    /\ \A i \in DOMAIN log :
          log[i].ev \in {"executed", "execute failed"} => CompiledBefore(i) = Len(changes)
    /\ Events({"compile failed"}) # <<>> => Events({"executed"}) = <<>>

-----------------------------------------------------------------------------
(* Claims about the length of the compiled list, under SpecCompile *)

\* the change of the compile specification has been compiled successfully
CompiledOne == log # <<>> /\ log[1].ev = "compiled"

\* a CopyFile compiles to one Copy, CopySudo or StoreFile onto the target of
\* the change, followed by the Run of the post-hook when there is one
CopyThenHook(change, list) ==
    /\ Len(list) = (IF change.file.post_hook = None THEN 1 ELSE 2)
    /\ list[1].type \in {"Copy", "CopySudo", "StoreFile"}
    /\ list[1].target = change.target
    /\ change.file.post_hook # None => list[2] = Run(Unwrap(change.file.post_hook), FALSE)

\* C12 as stated: a successful compile returns 0, 1 or 2 actions, and for a
\* CopyFile one file action followed by the post-hook when it is set.
C12_AtMostTwoActions ==
    CompiledOne =>
        /\ Len(log[1].actions) \in {0, 1, 2}
        /\ log[1].change.type = "CopyFile" => CopyThenHook(log[1].change, log[1].actions)

\* C12, amended: a raw command compiles to one Run; a CopyFile to one file
\* action followed by the post-hook when it is set; a package change to no
\* action when the manager has no command for it, to one Run when the
\* seperator is not empty, and to one Run per package, in the order of the
\* list, when the seperator is empty.
C12_ActionListShape ==
    CompiledOne =>
        LET change == log[1].change
            list == log[1].actions
        IN CASE change.type = "RawCommand" -> list = <<Run(change.command, FALSE)>>
             [] change.type = "CopyFile" -> CopyThenHook(change, list)
             [] OTHER ->
                  LET manager == config.managers[change.manager]
                      template == IF change.type = "AddPackage" THEN manager.add
                                  ELSE manager.remove
                  IN /\ \A i \in DOMAIN list : list[i].type = "Run" /\ list[i].sudo = manager.sudo
                     /\ Len(list) = (IF template = None THEN 0
                                     ELSE IF manager.seperator # "" THEN 1
                                     ELSE Len(change.packages))
                     /\ (template # None /\ manager.seperator = "") =>
                           \A i \in DOMAIN list :
                              list[i].command = Replace(Unwrap(template), <<change.packages[i]>>)

\* C12 witness: a package change with three packages compiled by a manager
\* with an empty seperator, into three actions.
C12_Witness ==
    /\ CompiledOne
    /\ log[1].change.type = "AddPackage"
    /\ Len(log[1].change.packages) = 3
    /\ config.managers[log[1].change.manager].seperator = ""
    /\ Len(log[1].actions) = 3

-----------------------------------------------------------------------------
(* Claims about load_dependencies, under SpecResolve *)

\* the tree left in self by the call
Left == Unwrap(merged).tree

\* the tree imports one fragment, which is there, is not disabled and imports
\* nothing: load_dependencies is one call of combine
OneCombine ==
    /\ Cardinality(config.module.import) = 1
    /\ \A n \in config.module.import :
          /\ n \in DOMAIN frags /\ frags[n].parsed
          /\ frags[n].tree.module = DefaultModule

\* the fragment of OneCombine
Incoming == frags[CHOOSE n \in config.module.import : TRUE].tree

\* C13 as stated: whenever load_dependencies fails, the tree it was called
\* on is unchanged.
C13_FailureLeavesTreeUnchanged ==
    pc = "resolve failed" => Left = config

\* C13, amended: a failing load_dependencies does not restore the tree. The
\* imports are still listed and nothing the tree held is withdrawn, and a
\* failing combine leaves the managers, hooks, files and packages of the
\* incoming fragment folded in.
C13_FailureLeavesFoldedFragments ==
    pc = "resolve failed" =>
        /\ ~Unwrap(merged).ok
        /\ Left.module = config.module
        /\ DOMAIN config.managers \subseteq DOMAIN Left.managers
        /\ DOMAIN config.files \subseteq DOMAIN Left.files
        /\ DOMAIN config.hooks.once \subseteq DOMAIN Left.hooks.once
        /\ DOMAIN config.hooks.update \subseteq DOMAIN Left.hooks.update
        /\ DOMAIN config.template \subseteq DOMAIN Left.template
        /\ \A m \in DOMAIN config.packages :
              m \in DOMAIN Left.packages /\ config.packages[m] \subseteq Left.packages[m]
        /\ OneCombine =>
              /\ Left.managers = Extend(config.managers, Incoming.managers)
              /\ Left.files = Extend(config.files, Incoming.files)
              /\ Left.hooks.once = Extend(config.hooks.once, Incoming.hooks.once)
              /\ Left.hooks.update = Extend(config.hooks.update, Incoming.hooks.update)
              /\ Left.packages = CombinePackages(config.packages, Incoming.packages)

\* C13 witness: a combine failed on a template conflict, and the tree holds
\* a manager and packages of the conflicting fragment.
C13_Witness ==
    /\ pc = "resolve failed"
    /\ OneCombine
    /\ DOMAIN Incoming.managers # {}
    /\ Left.managers # config.managers
    /\ Left.packages # config.packages

-----------------------------------------------------------------------------
(* Claims about the snapshot over the runs, under Spec *)

\* the run compiled a change of the kinds and executed every action of it
Reconciled(change) ==
    \E i \in DOMAIN log :
       /\ log[i].ev = "compiled" /\ log[i].change = change
       /\ \A j \in DOMAIN log[i].actions :
             i + j \in DOMAIN log /\ log[i + j] = Executed(log[i].actions[j])

\* the once-hook is in the snapshot the run started from, with this command,
\* or the run emitted and reconciled the RawCommand of the hook
HookRecorded(name) ==
    LET hook == ReadState(snapshot).hooks.once[name]
    IN \/ name \in DOMAIN state.hooks.once /\ state.hooks.once[name].command = hook.command
       \/ \E i \in DOMAIN changes :
             /\ changes[i] = RawCommand(hook.command, hook.priority)
             /\ Reconciled(changes[i])

\* the package is in the snapshot the run started from, or the run emitted
\* and reconciled an AddPackage that lists it
PackageRecorded(manager, package) ==
    \/ package \in GetOrEmpty(state.packages, manager)
    \/ \E i \in DOMAIN changes :
          /\ changes[i].type = "AddPackage" /\ changes[i].manager = manager
          /\ \E k \in DOMAIN changes[i].packages : changes[i].packages[k] = package
          /\ Reconciled(changes[i])

\* the snapshot a completed run wrote records nothing beyond the snapshot it
\* started from but what the run reconciled
OnlyReconciled ==
    LET snap == ReadState(snapshot)
    IN /\ \A name \in DOMAIN snap.hooks.once : HookRecorded(name)
       /\ \A manager \in DOMAIN snap.managers :
             \A package \in GetOrEmpty(snap.packages, manager) :
                PackageRecorded(manager, package)

\* C14: the snapshot only records state that was reconciled: every run of
\* apply or update that completes leaves a snapshot whose once-hooks and
\* packages were already in the snapshot it started from (none, for the
\* first run) or were emitted, compiled and executed by the run.
C14_SnapshotOnlyRecordsReconciled ==
    pc \in {"applied", "updated"} => OnlyReconciled

====
